---- MODULE Spec2Model ----
(***************************************************************************)
(* Symptom-to-disease matching engine of app.py: preprocess_text,          *)
(* categorize_disease, calculate_similarity and find_similar_diseases.     *)
(* Texts are sequences of one-character strings. Scores are Python floats: *)
(* IEEE-754 binary64 values, computed here with exact integer arithmetic   *)
(* on multi-limb naturals and rounded to nearest, ties to even, as the     *)
(* hardware does for sqrt, * and /.                                        *)
(***************************************************************************)
EXTENDS Integers, Sequences, FiniteSets, TLC

(***************************************************************************)
(* Multi-limb naturals: little-endian sequences of limbs below LimbBase,   *)
(* without leading zero limbs; <<>> is zero.                               *)
(***************************************************************************)
LimbBits == 15
LimbBase == 2^LimbBits

\* a without its leading zero limbs
BTrim(a) ==
    LET nz == {i \in 1..Len(a) : a[i] # 0}
    IN  IF nz = {} THEN <<>>
        ELSE SubSeq(a, 1, CHOOSE i \in nz : \A j \in nz : j <= i)

BFromInt(n) ==
    IF n = 0 THEN <<>>
    ELSE IF n < LimbBase THEN <<n>>
    ELSE IF n < LimbBase * LimbBase THEN <<n % LimbBase, n \div LimbBase>>
    ELSE <<n % LimbBase, (n \div LimbBase) % LimbBase, n \div (LimbBase * LimbBase)>>

\* limb i of a, zero above its length
Limb(a, i) == IF i <= Len(a) THEN a[i] ELSE 0

\* a + b: a carry enters limb i when a limb below overflows and every limb
\* between is full
BAdd(a, b) ==
    LET n        == 1 + (IF Len(a) > Len(b) THEN Len(a) ELSE Len(b))
        sum      == [i \in 1..n |-> Limb(a, i) + Limb(b, i)]
        carry(i) == IF \E j \in 1..(i - 1) :
                          /\ sum[j] >= LimbBase
                          /\ \A k \in (j + 1)..(i - 1) : sum[k] = LimbBase - 1
                    THEN 1 ELSE 0
    IN  BTrim([i \in 1..n |-> (sum[i] + carry(i)) % LimbBase])

\* a - b for a >= b: a borrow leaves limb i when a limb below is short and
\* every limb between is level
BSub(a, b) ==
    LET borrow(i) == IF \E j \in 1..(i - 1) :
                           /\ Limb(a, j) < Limb(b, j)
                           /\ \A k \in (j + 1)..(i - 1) : Limb(a, k) = Limb(b, k)
                     THEN 1 ELSE 0
    IN  BTrim([i \in 1..Len(a) |-> (a[i] - Limb(b, i) - borrow(i)) % LimbBase])

\* a * d for one limb d
BMulLimb(a, d) ==
    BAdd([i \in 1..Len(a) |-> (a[i] * d) % LimbBase],
         <<0>> \o [i \in 1..Len(a) |-> (a[i] * d) \div LimbBase])

\* low + high * LimbBase
BMulAdd(low, high) == IF high = <<>> THEN low ELSE BAdd(low, <<0>> \o high)

RECURSIVE BMul(_, _)
BMul(a, b) ==
    IF a = <<>> \/ b = <<>> THEN <<>>
    ELSE BMulAdd(BMulLimb(a, Head(b)), BMul(a, Tail(b)))

\* -1, 0 or 1 as a < b, a = b, a > b
BCmp(a, b) ==
    IF Len(a) # Len(b) THEN (IF Len(a) < Len(b) THEN -1 ELSE 1)
    ELSE IF a = b THEN 0
    ELSE IF \E i \in 1..Len(a) :
               /\ a[i] < b[i]
               /\ \A j \in (i + 1)..Len(a) : a[j] = b[j]
         THEN -1 ELSE 1

BPow2(k) == [i \in 1..((k \div LimbBits) + 1) |->
                IF i = (k \div LimbBits) + 1 THEN 2^(k % LimbBits) ELSE 0]

\* the number of bits of a limb
IntBitLen(n) == CHOOSE k \in 0..LimbBits : n < 2^k /\ (k = 0 \/ 2^(k - 1) <= n)

BBitLen(a) == IF a = <<>> THEN 0
              ELSE (Len(a) - 1) * LimbBits + IntBitLen(a[Len(a)])

BOdd(a) == a # <<>> /\ a[1] % 2 = 1

\* floor(a / 2^s)
BShr(a, s) ==
    LET w == s \div LimbBits
        b == s % LimbBits
        n == Len(a) - w
    IN  IF n <= 0 THEN <<>>
        ELSE BTrim([i \in 1..n |->
                 (a[i + w] \div 2^b)
                 + (IF i + w < Len(a) THEN (a[i + w + 1] % 2^b) * 2^(LimbBits - b) ELSE 0)])

\* a * 2^s
BShl(a, s) ==
    IF a = <<>> THEN <<>>
    ELSE [i \in 1..(s \div LimbBits) |-> 0] \o BMulLimb(a, 2^(s % LimbBits))

\* One step of restoring division by d: the state is [rem, q], and r2, q2
\* are the doubled remainder and quotient.
DivPick(r2, q2, d) ==
    IF BCmp(r2, d) >= 0
    THEN [rem |-> BSub(r2, d), q |-> BAdd(q2, <<1>>)]
    ELSE [rem |-> r2, q |-> q2]

DivStep(st, d) == DivPick(BAdd(st.rem, st.rem), BAdd(st.q, st.q), d)

\* n steps, by halves; once the remainder is zero the quotient is only
\* shifted
RECURSIVE DivSteps(_, _, _)
DivSteps(st, d, n) ==
    IF st.rem = <<>> THEN [rem |-> <<>>, q |-> BShl(st.q, n)]
    ELSE IF n = 0 THEN st
    ELSE IF n = 1 THEN DivStep(st, d)
    ELSE DivSteps(DivSteps(st, d, n \div 2), d, n - (n \div 2))

\* [q, rem] with a * 2^g = q * d + rem, for 0 < a < 2 * d
BDivScaled(a, d, g) ==
    DivSteps(IF BCmp(a, d) >= 0 THEN [rem |-> BSub(a, d), q |-> <<1>>]
                                ELSE [rem |-> a, q |-> <<>>], d, g)

\* The root search: t is the root r of x with one more bit set
SqrtTry(x, r, t) == IF BCmp(BMul(t, t), x) <= 0 THEN t ELSE r

\* the n bits of the root from bit k down, by halves; a root equal to x
\* (of 0 or 1) is final
RECURSIVE SqrtSteps(_, _, _, _)
SqrtSteps(x, k, r, n) ==
    IF r = x THEN r
    ELSE IF n = 1 THEN SqrtTry(x, r, BAdd(r, BPow2(k)))
    ELSE SqrtSteps(x, k - (n \div 2), SqrtSteps(x, k, r, n \div 2), n - (n \div 2))

\* floor(sqrt(x)), by trying the root's bits from the top
BSqrt(x) == SqrtSteps(x, BBitLen(x) \div 2, <<>>, (BBitLen(x) \div 2) + 1)

(***************************************************************************)
(* binary64 values >= 0: [m, e] is m * 2^e with m of exactly MantBits bits *)
(* (the exponent never leaves the normal range here); FZero is 0.0.        *)
(***************************************************************************)
MantBits == 53
GuardBits == MantBits + 3

FZero == [m |-> <<>>, e |-> 0]

\* a mantissa q1 of MantBits or MantBits + 1 bits (then a power of two)
FNormal(q1, e) ==
    IF BBitLen(q1) > MantBits
    THEN [m |-> BPow2(MantBits - 1), e |-> e + 1]
    ELSE [m |-> q1, e |-> e]

\* c compares the bits dropped with one half: up on more than half, and on
\* exactly half when that makes the mantissa even
FRoundUp(q, e, c, sticky) ==
    FNormal(IF c > 0 \/ (c = 0 /\ (sticky \/ BOdd(q))) THEN BAdd(q, <<1>>) ELSE q, e)

FRoundQuot(n, e, sticky, s, q) ==
    FRoundUp(q, e + s, BCmp(BSub(n, BShl(q, s)), BPow2(s - 1)), sticky)

FRoundLen(n, e, sticky, len) ==
    IF len <= MantBits
    THEN [m |-> BShl(n, MantBits - len), e |-> e - (MantBits - len)]
    ELSE FRoundQuot(n, e, sticky, len - MantBits, BShr(n, len - MantBits))

\* round-to-nearest-even of (n + eps) * 2^e, 0 <= eps < 1, eps > 0 iff sticky
FRound(n, e, sticky) == FRoundLen(n, e, sticky, BBitLen(n))

\* float(n) for an int n >= 0 below 2^MantBits
FFromInt(n) == IF n = 0 THEN FZero ELSE FRound(BFromInt(n), 0, FALSE)

\* the root r of x rounded, sticky when r * r # x
FSqrtRound(x, r) == FRound(r, -GuardBits, BCmp(BMul(r, r), x) # 0)

FSqrtScaled(x) == FSqrtRound(x, BSqrt(x))

\* math.sqrt(n) for an int n >= 1
FSqrt(n) == FSqrtScaled(BShl(BFromInt(n), 2 * GuardBits))

\* a * b
FMul(a, b) ==
    IF a = FZero \/ b = FZero THEN FZero
    ELSE FRound(BMul(a.m, b.m), a.e + b.e, FALSE)

FQuot(d, e) == FRound(d.q, e, d.rem # <<>>)

\* a / b for b > 0
FDiv(a, b) ==
    IF a = FZero THEN FZero
    ELSE FQuot(BDivScaled(a.m, b.m, GuardBits), a.e - b.e - GuardBits)

\* -1, 0 or 1 as a < b, a = b, a > b
FCmp(a, b) ==
    IF a = FZero \/ b = FZero
    THEN (IF a = b THEN 0 ELSE IF a = FZero THEN -1 ELSE 1)
    ELSE IF a.e # b.e THEN (IF a.e < b.e THEN -1 ELSE 1)
    ELSE BCmp(a.m, b.m)

FOne == [m |-> BPow2(MantBits - 1), e |-> 1 - MantBits]

\* the literal 0.1: 0x1.999999999999ap-4
FLOOR == [m |-> <<6554, 13107, 26214, 204>>, e |-> -56]

(***************************************************************************)
(* Text: a str is a sequence of one-character strings. NaN is the          *)
(* not-a-value sentinel of pandas (None, float nan) where a str is due.    *)
(***************************************************************************)
NaN == <<"NaN">>

LowerAscii == <<"a","b","c","d","e","f","g","h","i","j","k","l","m","n","o","p","q","r","s","t","u","v","w","x","y","z">>
UpperAscii == <<"A","B","C","D","E","F","G","H","I","J","K","L","M","N","O","P","Q","R","S","T","U","V","W","X","Y","Z">>

\* U+0130 lowercases to "i" followed by the combining dot U+0307;
\* U+212A (the Kelvin sign) lowercases to "k".
LowerChar(c) ==
    IF \E i \in 1..Len(UpperAscii) : UpperAscii[i] = c
    THEN <<LowerAscii[CHOOSE i \in 1..Len(UpperAscii) : UpperAscii[i] = c]>>
    ELSE IF c = "U+0130" THEN <<"i", "U+0307">>
    ELSE IF c = "U+212A" THEN <<"k">>
    ELSE <<c>>

Range(s) == {s[i] : i \in 1..Len(s)}

IsAsciiLetter(c) == c \in Range(LowerAscii) \union Range(UpperAscii)

IsSpace(c) == c \in {" ", "\t", "\n", "\r"}

\* the parts joined end to end, by halves
RECURSIVE Concat(_)
Concat(parts) ==
    IF parts = <<>> THEN <<>>
    ELSE IF Len(parts) = 1 THEN parts[1]
    ELSE Concat(SubSeq(parts, 1, Len(parts) \div 2))
         \o Concat(SubSeq(parts, (Len(parts) \div 2) + 1, Len(parts)))

\* str.lower()
str_lower(text) == Concat([i \in 1..Len(text) |-> LowerChar(text[i])])

\* re.sub(r'[^a-zA-Z\s]', ' ', text)
re_sub_nonalpha(text) ==
    [i \in 1..Len(text) |->
        IF IsAsciiLetter(text[i]) \/ IsSpace(text[i]) THEN text[i] ELSE " "]

\* str.split(): the maximal runs of non-whitespace characters, in order
str_split(text) ==
    LET starts == {i \in 1..Len(text) :
                      ~IsSpace(text[i]) /\ (i = 1 \/ IsSpace(text[i - 1]))}
        stop(i) == CHOOSE j \in i..Len(text) :
                      /\ \A k \in i..j : ~IsSpace(text[k])
                      /\ (j = Len(text) \/ IsSpace(text[j + 1]))
        nth(k)  == CHOOSE i \in starts : Cardinality({j \in starts : j <= i}) = k
    IN  [k \in 1..Cardinality(starts) |-> SubSeq(text, nth(k), stop(nth(k)))]

\* ' '.join(words)
RECURSIVE str_join(_)
str_join(words) ==
    IF words = <<>> THEN <<>>
    ELSE IF Len(words) = 1 THEN Head(words)
    ELSE Head(words) \o <<" ">> \o str_join(Tail(words))

stop_words == {
    <<"t", "h", "e">>, <<"a", "n", "d">>, <<"o", "r">>, <<"b", "u", "t">>,
    <<"i", "s">>, <<"i", "n">>, <<"i", "t">>, <<"t", "o">>, <<"o", "f">>,
    <<"f", "o", "r">>, <<"w", "i", "t", "h">>, <<"o", "n">>, <<"a", "t">>,
    <<"b", "y">>, <<"a", "n">>, <<"a">>, <<"t", "h", "i", "s">>,
    <<"t", "h", "a", "t">>, <<"a", "r", "e">>, <<"w", "a", "s">>,
    <<"h", "a", "s">>, <<"h", "a", "v", "e">>, <<"h", "a", "d">>,
    <<"b", "e">>, <<"b", "e", "e", "n">>, <<"b", "e", "i", "n", "g">>}

MinWordLen == 2

\* lower-casing done last, after the stop-word filter
preprocess_text_late_lower(text) ==
    IF text = NaN THEN <<>>
    ELSE LET cleaned == re_sub_nonalpha(text)
             words   == str_split(cleaned)
             kept    == SelectSeq(words,
                          LAMBDA w : w \notin stop_words /\ Len(w) > MinWordLen)
         IN  str_lower(str_join(kept))

preprocess_text(text) ==
    IF text = NaN THEN <<>>
    ELSE LET lowered == str_lower(text)
             cleaned == re_sub_nonalpha(lowered)
             words   == str_split(cleaned)
             kept    == SelectSeq(words,
                          LAMBDA w : w \notin stop_words /\ Len(w) > MinWordLen)
         IN  str_join(kept)

(***************************************************************************)
(* categorize_disease: the category table in its declared (dict) order.    *)
(***************************************************************************)
categories == <<
    [category |-> "Cancer", keywords |-> <<
        <<"c","a","n","c","e","r">>,
        <<"c","a","r","c","i","n","o","m","a">>,
        <<"t","u","m","o","r">>,
        <<"l","y","m","p","h","o","m","a">>,
        <<"l","e","u","k","e","m","i","a">>,
        <<"m","e","l","a","n","o","m","a">>>>],
    [category |-> "Infection", keywords |-> <<
        <<"i","n","f","e","c","t","i","o","n">>,
        <<"i","t","i","s">>,
        <<"a","b","s","c","e","s","s">>,
        <<"f","e","v","e","r">>,
        <<"p","o","x">>,
        <<"f","l","u">>,
        <<"s","e","p","s","i","s">>>>],
    [category |-> "Syndrome", keywords |-> <<
        <<"s","y","n","d","r","o","m","e">>,
        <<"d","i","s","o","r","d","e","r">>>>],
    [category |-> "Deficiency", keywords |-> <<
        <<"d","e","f","i","c","i","e","n","c","y">>,
        <<"a","n","e","m","i","a">>,
        <<"a","v","i","t","a","m","i","n","o","s","i","s">>>>],
    [category |-> "Poisoning", keywords |-> <<
        <<"p","o","i","s","o","n","i","n","g">>,
        <<"o","v","e","r","d","o","s","e">>,
        <<"i","n","t","o","x","i","c","a","t","i","o","n">>,
        <<"t","o","x","i","c","i","t","y">>>>],
    [category |-> "Injury", keywords |-> <<
        <<"f","r","a","c","t","u","r","e">>,
        <<"i","n","j","u","r","y">>,
        <<"d","i","s","l","o","c","a","t","i","o","n">>,
        <<"s","p","r","a","i","n">>,
        <<"t","r","a","u","m","a">>,
        <<"w","o","u","n","d">>>>],
    [category |-> "Eye Condition", keywords |-> <<
        <<"g","l","a","u","c","o","m","a">>,
        <<"c","a","t","a","r","a","c","t">>,
        <<"v","i","s","i","o","n">>,
        <<"e","y","e">>,
        <<"r","e","t","i","n","a">>,
        <<"c","o","r","n","e","a">>>>],
    [category |-> "Cardiovascular", keywords |-> <<
        <<"h","e","a","r","t">>,
        <<"c","a","r","d","i","o">>,
        <<"h","y","p","e","r","t","e","n","s","i","o","n">>,
        <<"b","l","o","o","d"," ","p","r","e","s","s","u","r","e">>,
        <<"a","r","t","e","r","y">>,
        <<"v","e","i","n">>>>],
    [category |-> "Endocrine", keywords |-> <<
        <<"d","i","a","b","e","t","e","s">>,
        <<"t","h","y","r","o","i","d">>,
        <<"h","o","r","m","o","n","e">>,
        <<"m","e","t","a","b","o","l","i","c">>,
        <<"g","l","a","n","d">>>>],
    [category |-> "Neurological", keywords |-> <<
        <<"n","e","u","r","o">>,
        <<"b","r","a","i","n">>,
        <<"n","e","r","v","e">>,
        <<"n","e","u","r","a","l">>,
        <<"c","e","p","h","a","l">>,
        <<"p","s","y","c","h">>>>],
    [category |-> "Respiratory", keywords |-> <<
        <<"l","u","n","g">>,
        <<"p","u","l","m","o","n","a","r","y">>,
        <<"b","r","e","a","t","h">>,
        <<"r","e","s","p","i","r","a","t","o","r","y">>,
        <<"a","s","t","h","m","a">>>>],
    [category |-> "Gastrointestinal", keywords |-> <<
        <<"g","a","s","t","r","o">>,
        <<"s","t","o","m","a","c","h">>,
        <<"i","n","t","e","s","t","i","n","a","l">>,
        <<"c","o","l","o","n">>,
        <<"l","i","v","e","r">>,
        <<"p","a","n","c","r","e","a","s">>>>],
    [category |-> "Pain Condition", keywords |-> <<
        <<"a","r","t","h","r","i","t","i","s">>,
        <<"p","a","i","n">>,
        <<"a","c","h","e">>,
        <<"n","e","u","r","a","l","g","i","a">>,
        <<"m","i","g","r","a","i","n","e">>>>]>>

\* keyword in disease_name (substring containment)
Contains(text, keyword) ==
    \E i \in 0..(Len(text) - Len(keyword)) :
        SubSeq(text, i + 1, i + Len(keyword)) = keyword

\* any(keyword in disease_name for keyword in keywords)
AnyKeyword(text, keywords) ==
    \E k \in 1..Len(keywords) : Contains(text, keywords[k])

\* the for loop over categories.items(), from entry i on
RECURSIVE categorize_from(_, _)
categorize_from(lowered, i) ==
    IF i > Len(categories) THEN "Other"
    ELSE IF AnyKeyword(lowered, categories[i].keywords) THEN categories[i].category
    ELSE categorize_from(lowered, i + 1)

\* the last matching category instead of the first
categorize_last_match(disease_name) ==
    LET hits == {i \in 1..Len(categories) :
                    AnyKeyword(str_lower(disease_name), categories[i].keywords)}
    IN  IF hits = {} THEN "Other"
        ELSE categories[CHOOSE i \in hits : \A j \in hits : j <= i].category

categorize_disease(disease_name) == categorize_from(str_lower(disease_name), 1)

(***************************************************************************)
(* Inputs. The scorer is exercised on every normalized text of up to       *)
(* MaxTokens tokens over TokenPool; the matcher on catalogs of up to       *)
(* MaxRows rows drawn from RowPool, with the queries of QueryPool.         *)
(***************************************************************************)
MaxTokens == 3
MaxRows == 3
MaxPieces == 4
MaxNameParts == 3

w_ache == <<"a","c","h","e">>
w_rash == <<"r","a","s","h">>
w_itch == <<"i","t","c","h">>

TokenPool == {w_ache, w_rash, w_itch}

SeqsUpTo(S, k) == UNION {[1..j -> S] : j \in 0..k}

NormalizedTexts == {str_join(ws) : ws \in SeqsUpTo(TokenPool, MaxTokens)}

q_four  == <<"A","c","h","e",","," ","r","a","s","h",";"," ","i","t","c","h"," ","&"," ","s","o","r","e","!">>
q_one   == <<"A","C","H","E">>
q_five  == <<"a","c","h","e"," ","r","a","s","h"," ","i","t","c","h"," ","s","o","r","e"," ","h","u","r","t">>
q_blank == <<" "," ","\t">>
q_stop  == <<"T","h","e"," ","a"," ","o","f"," ","1","2"," ","a","b","!">>

QueryPool == {q_four, q_one, q_five, NaN, <<>>, q_blank, q_stop}

s_four   == <<"a","c","h","e"," ","r","a","s","h"," ","i","t","c","h"," ","s","o","r","e">>
s_long   == <<"A","c","h","e"," ","a","n","d"," ","n","u","m","b"," ","n","u","m","b"," ","p","a","l","e"," ","p","a","l","e"," ","c","o","l","d"," ","c","o","l","d"," ","c","o","l","d"," ","c","o","l","d">>
s_two    == <<"a","c","h","e"," ","n","u","m","b">>
s_two_b  == <<"N","u","m","b",","," ","a","c","h","e",".">>

RowPool == {
    [Name |-> <<"E","c","z","e","m","a">>, Symptoms |-> s_four, Treatments |-> <<"c","r","e","a","m">>],
    [Name |-> <<"F","l","u">>, Symptoms |-> s_long, Treatments |-> <<"r","e","s","t">>],
    [Name |-> <<"A","r","t","h","r","i","t","i","s">>, Symptoms |-> s_two, Treatments |-> <<"r","e","s","t">>],
    [Name |-> <<"M","i","g","r","a","i","n","e">>, Symptoms |-> s_two_b, Treatments |-> <<"p","i","l","l","s">>],
    [Name |-> <<"C","o","l","d">>, Symptoms |-> NaN, Treatments |-> NaN]}

Catalogs == SeqsUpTo(RowPool, MaxRows)

DefaultTopN == 10

TopNs == (-1..MaxRows) \union {DefaultTopN}

(***************************************************************************)
(* calculate_similarity                                                    *)
(***************************************************************************)
\* Counter(words)
Counter(words) ==
    [w \in Range(words) |-> Cardinality({i \in 1..Len(words) : words[i] = w})]

\* count[word]: a Counter answers 0 for a missing key
Count(count, word) == IF word \in DOMAIN count THEN count[word] ELSE 0

\* lines 124-126 with mag2 accumulating count1 * count2
TermStep_cross(acc, count1, count2, word) ==
    [dot_product |-> acc.dot_product + Count(count1, word) * Count(count2, word),
     mag1        |-> acc.mag1 + Count(count1, word) * Count(count1, word),
     mag2        |-> acc.mag2 + Count(count1, word) * Count(count2, word)]

\* lines 124-126: one pass of the loop body
TermStep(acc, count1, count2, word) ==
    [dot_product |-> acc.dot_product + Count(count1, word) * Count(count2, word),
     mag1        |-> acc.mag1 + Count(count1, word) * Count(count1, word),
     mag2        |-> acc.mag2 + Count(count2, word) * Count(count2, word)]

\* for word in all_words: the sums are of integers, so the order in which a
\* set is walked does not matter
RECURSIVE TermLoop(_, _, _, _)
TermLoop(acc, count1, count2, all_words) ==
    IF all_words = {} THEN acc
    ELSE LET word == CHOOSE w \in all_words : TRUE
         IN  TermLoop(TermStep(acc, count1, count2, word), count1, count2,
                      all_words \ {word})

\* lines 114-126: the counters, all_words and the three integer accumulators
TermStats(words1, words2) ==
    TermLoop([dot_product |-> 0, mag1 |-> 0, mag2 |-> 0],
             Counter(words1), Counter(words2), Range(words1 \o words2))

\* The texts calculate_similarity is applied to
InputPairs ==
    {<<a, b>> : a \in NormalizedTexts, b \in NormalizedTexts}
    \union {<<preprocess_text(q), preprocess_text(r.Symptoms)>> :
                q \in QueryPool, r \in RowPool}

InputStats == {TermStats(str_split(p[1]), str_split(p[2])) : p \in InputPairs}

\* math.sqrt is pure: its values on the magnitudes that occur, computed once
SqrtMemo ==
    [m \in UNION {{st.mag1, st.mag2} : st \in InputStats} \ {0} |-> FSqrt(m)]

math_sqrt(m) == SqrtMemo[m]

\* the first magnitude used twice
Cosine_first_twice(dot_product, mag1, mag2) ==
    FDiv(FFromInt(dot_product), FMul(math_sqrt(mag1), math_sqrt(mag1)))

\* dot_product / (math.sqrt(mag1) * math.sqrt(mag2))
Cosine(dot_product, mag1, mag2) ==
    FDiv(FFromInt(dot_product), FMul(math_sqrt(mag1), math_sqrt(mag2)))

\* the quotient is a function of the three accumulators: computed once for
\* each triple that occurs
CosineMemo ==
    [st \in {s \in InputStats : s.mag1 # 0 /\ s.mag2 # 0}
        |-> Cosine(st.dot_product, st.mag1, st.mag2)]

\* lines 123-131: the loop, the zero-magnitude return and the quotient
cosine_of(st) == IF st.mag1 = 0 \/ st.mag2 = 0 THEN FZero ELSE CosineMemo[st]

\* lines 108-121: the split and the empty-text return
similarity_of_words(words1, words2) ==
    IF words1 = <<>> \/ words2 = <<>> THEN FZero
    ELSE cosine_of(TermStats(words1, words2))

calculate_similarity(text1, text2) ==
    similarity_of_words(str_split(text1), str_split(text2))

(***************************************************************************)
(* The three functions are pure, so for the texts of the catalogs and of   *)
(* the queries their values are computed once and looked up by the calls.  *)
(***************************************************************************)
PoolTexts == QueryPool \union {r.Symptoms : r \in RowPool}

PreprocessMemo == [t \in PoolTexts |-> preprocess_text(t)]

Preprocessed(text) == PreprocessMemo[text]

CategoryMemo == [nm \in {r.Name : r \in RowPool} |-> categorize_disease(nm)]

CategoryOf(disease_name) == CategoryMemo[disease_name]

SimilarityMemo ==
    [p \in {PreprocessMemo[q] : q \in QueryPool}
            \X {PreprocessMemo[r.Symptoms] : r \in RowPool}
        |-> calculate_similarity(p[1], p[2])]

SimilarityOf(text1, text2) == SimilarityMemo[<<text1, text2>>]

(***************************************************************************)
(* find_similar_diseases                                                   *)
(***************************************************************************)
\* sorted ascending and then reversed: equal keys end in reverse order
sort_ascending_reversed(items) ==
    LET before(i, j) ==
            \/ FCmp(items[i].similarity, items[j].similarity) < 0
            \/ (FCmp(items[i].similarity, items[j].similarity) = 0 /\ i < j)
        place(i) == 1 + Cardinality({j \in 1..Len(items) : before(j, i)})
    IN  [k \in 1..Len(items) |->
            items[CHOOSE i \in 1..Len(items) : place(i) = Len(items) + 1 - k]]

\* results.sort(key=lambda x: x['similarity'], reverse=True): list.sort is
\* stable, and with reverse=True equal keys keep their original order.
sort_descending(items) ==
    LET before(i, j) ==
            \/ FCmp(items[i].similarity, items[j].similarity) > 0
            \/ (FCmp(items[i].similarity, items[j].similarity) = 0 /\ i < j)
        place(i) == 1 + Cardinality({j \in 1..Len(items) : before(j, i)})
    IN  [k \in 1..Len(items) |-> items[CHOOSE i \in 1..Len(items) : place(i) = k]]

\* no truncation: the whole list is returned
slice_all(results, top_n) == results

\* results[:top_n]
slice_to(results, top_n) ==
    IF top_n >= 0
    THEN SubSeq(results, 1, IF top_n < Len(results) THEN top_n ELSE Len(results))
    ELSE SubSeq(results, 1, IF Len(results) + top_n > 0 THEN Len(results) + top_n ELSE 0)

\* the floor taken as inclusive: similarity >= 0.1
AboveFloor_inclusive(similarity) == FCmp(similarity, FLOOR) >= 0

\* similarity > 0.1
AboveFloor(similarity) == FCmp(similarity, FLOOR) > 0

\* One pass of the loop body for catalog row i; "row" records the position
\* of the entry in the catalog and is not part of the returned dict.
ScoreRow(cleaned_symptoms, df, i) ==
    [row        |-> i,
     disease    |-> df[i].Name,
     symptoms   |-> df[i].Symptoms,
     treatments |-> df[i].Treatments,
     similarity |-> SimilarityOf(cleaned_symptoms, Preprocessed(df[i].Symptoms)),
     category   |-> CategoryOf(df[i].Name)]

StripRow(e) ==
    [disease |-> e.disease, symptoms |-> e.symptoms, treatments |-> e.treatments,
     similarity |-> e.similarity, category |-> e.category]

\* What a call hands back: results is the returned list, scored counts the
\* calculate_similarity calls made and order lists the catalog positions of
\* the results.
Returned(top, scored) ==
    [results |-> [k \in 1..Len(top) |-> StripRow(top[k])],
     scored  |-> scored,
     order   |-> [k \in 1..Len(top) |-> top[k].row]]

\* lines 153-167: the loop over the catalog, the sort and the slice
match_rows(cleaned_symptoms, df, top_n) ==
    Returned(slice_to(sort_descending(
                 SelectSeq([i \in 1..Len(df) |-> ScoreRow(cleaned_symptoms, df, i)],
                           LAMBDA e : AboveFloor(e.similarity))), top_n),
             Len(df))

\* no early return: an empty query is scored against every row
match_unguarded(cleaned_symptoms, df, top_n) == match_rows(cleaned_symptoms, df, top_n)

\* lines 149-150: the early return
match_cleaned(cleaned_symptoms, df, top_n) ==
    IF cleaned_symptoms = <<>> THEN Returned(<<>>, 0)
    ELSE match_rows(cleaned_symptoms, df, top_n)

find_similar_diseases(symptoms, df, top_n) ==
    match_cleaned(Preprocessed(symptoms), df, top_n)

(***************************************************************************)
(* Inputs of the normalizer and of the categorizer: concatenations of a    *)
(* few pieces.                                                             *)
(***************************************************************************)
TextPieces == {<<"d","a","d">>, <<"a","n","d">>, <<"a","n">>,
               <<"D">>, <<" ">>, <<"-">>, <<"U+0130">>}

RawTexts == {NaN} \union {Concat(ps) : ps \in SeqsUpTo(TextPieces, MaxPieces)}

NameParts == {<<"L","u","n","g"," ">>, <<"c","a","n","c","e","r"," ">>, <<"c","l","i","n","i","c">>,
              <<"e","y","e"," ">>, <<"i","n","f","e","c","t","i","o","n">>, <<"a","r","t","h","r">>,
              <<"i","t","i","s">>, <<"p","a","i","n">>, <<"N","e","u","r","a","l">>, <<"g","i","a">>}

Names == {Concat(ps) : ps \in SeqsUpTo(NameParts, MaxNameParts)}

CallPool == {q_four, q_one} \X {1, DefaultTopN}

(***************************************************************************)
(* State.  df is the catalog; pc, arg and ret are the position, the        *)
(* arguments and the result of the operation applied; history is the set   *)
(* of calls a session has made, each with what it returned.                *)
(***************************************************************************)
VARIABLES df, pc, arg, ret, history

vars == <<df, pc, arg, ret, history>>

NoCatalog == df = <<>> /\ history = {}

\* ---- preprocess_text, applied once and then to its own output
InitNorm ==
    /\ NoCatalog
    /\ pc = "idle"
    /\ arg \in [text : RawTexts]
    /\ ret = [once |-> <<>>, twice |-> <<>>]

Normalize ==
    /\ pc = "idle"
    /\ pc' = "once"
    /\ ret' = [ret EXCEPT !.once = preprocess_text(arg.text)]
    /\ UNCHANGED <<df, arg, history>>

Renormalize ==
    /\ pc = "once"
    /\ pc' = "twice"
    /\ ret' = [ret EXCEPT !.twice = preprocess_text(ret.once)]
    /\ UNCHANGED <<df, arg, history>>

NextNorm == Normalize \/ Renormalize

SpecNorm == InitNorm /\ [][NextNorm]_vars

\* ---- categorize_disease
InitCat ==
    /\ NoCatalog
    /\ pc = "idle"
    /\ arg \in [disease_name : Names]
    /\ ret = [category |-> ""]

Categorize ==
    /\ pc = "idle"
    /\ pc' = "done"
    /\ ret' = [category |-> categorize_disease(arg.disease_name)]
    /\ UNCHANGED <<df, arg, history>>

NextCat == Categorize

SpecCat == InitCat /\ [][NextCat]_vars

\* ---- calculate_similarity, applied to (text1, text2) and to (text2, text1)
InitSim ==
    /\ NoCatalog
    /\ pc = "idle"
    /\ arg \in [text1 : NormalizedTexts, text2 : NormalizedTexts]
    /\ ret = [score |-> FZero, swapped |-> FZero]

Score ==
    /\ pc = "idle"
    /\ pc' = "done"
    /\ ret' = [score   |-> calculate_similarity(arg.text1, arg.text2),
               swapped |-> calculate_similarity(arg.text2, arg.text1)]
    /\ UNCHANGED <<df, arg, history>>

NextSim == Score

SpecSim == InitSim /\ [][NextSim]_vars

\* ---- find_similar_diseases, one call
NoCall == [symptoms |-> NaN, top_n |-> DefaultTopN]
NoResult == [results |-> <<>>, scored |-> 0, order |-> <<>>]

Init ==
    /\ df \in Catalogs
    /\ history = {}
    /\ pc = "idle"
    /\ arg = NoCall
    /\ ret = NoResult

Call(symptoms, top_n) ==
    /\ pc = "idle"
    /\ pc' = "done"
    /\ arg' = [symptoms |-> symptoms, top_n |-> top_n]
    /\ ret' = find_similar_diseases(symptoms, df, top_n)
    /\ UNCHANGED <<df, history>>

Next == \E symptoms \in QueryPool, top_n \in TopNs : Call(symptoms, top_n)

Spec == Init /\ [][Next]_vars

\* ---- a session: any number of calls against the same catalog; history
\* keeps each call with the catalog it was given and the list it returned
SessionCall_pruning(symptoms, top_n) ==
    /\ pc' = "done"
    /\ arg' = [symptoms |-> symptoms, top_n |-> top_n]
    /\ ret' = find_similar_diseases(symptoms, df, top_n)
    /\ history' = history \union
                    {[symptoms |-> symptoms, top_n |-> top_n, catalog |-> df,
                      results |-> ret'.results]}
    /\ df' = [k \in 1..Len(ret'.order) |-> df[ret'.order[k]]]

SessionCall(symptoms, top_n) ==
    /\ pc' = "done"
    /\ arg' = [symptoms |-> symptoms, top_n |-> top_n]
    /\ ret' = find_similar_diseases(symptoms, df, top_n)
    /\ history' = history \union
                    {[symptoms |-> symptoms, top_n |-> top_n, catalog |-> df,
                      results |-> ret'.results]}
    /\ UNCHANGED df

NextSession == \E c \in CallPool : SessionCall(c[1], c[2])

SpecSession == Init /\ [][NextSession]_vars

(***************************************************************************)
(* Properties of find_similar_diseases (Spec).                             *)
(***************************************************************************)
\* C1: every result of a call has similarity strictly greater than 0.1, and
\* a catalog row whose similarity to the normalized query is at or below 0.1
\* (0.1 itself and 0.0 included) is not among the results.
C1_StrictFloor ==
    pc = "done" =>
        /\ \A k \in 1..Len(ret.results) :
              FCmp(ret.results[k].similarity, FLOOR) > 0
        /\ \A i \in 1..Len(df) :
              FCmp(SimilarityOf(Preprocessed(arg.symptoms), Preprocessed(df[i].Symptoms)),
                   FLOOR) <= 0
                => \A k \in 1..Len(ret.order) : ret.order[k] # i

\* a row scoring exactly 0.1 is left out while another row is returned
C1_ExactFloorLeftOut ==
    /\ pc = "done"
    /\ arg.symptoms = q_four
    /\ Len(ret.results) >= 1
    /\ \E i \in 1..Len(df) :
          /\ df[i].Symptoms = s_long
          /\ SimilarityOf(Preprocessed(q_four), Preprocessed(s_long)) = FLOOR
          /\ \A k \in 1..Len(ret.order) : ret.order[k] # i

\* C2: the results are in non-increasing order of similarity, and two
\* results of equal similarity are in the order of their rows in the catalog.
C2_SortedStable ==
    pc = "done" =>
        \A k, l \in 1..Len(ret.results) :
            k < l =>
                \/ FCmp(ret.results[k].similarity, ret.results[l].similarity) > 0
                \/ /\ ret.results[k].similarity = ret.results[l].similarity
                   /\ ret.order[k] < ret.order[l]

\* the best row is last in the catalog and the two rows before it tie
C2_TieAfterBest ==
    /\ pc = "done"
    /\ ret.order = <<3, 1, 2>>
    /\ FCmp(ret.results[1].similarity, ret.results[2].similarity) > 0
    /\ ret.results[2].similarity = ret.results[3].similarity
    /\ ret.results[2].disease # ret.results[3].disease

\* C3 (amended): for every top_n >= 0, with k the number of rows above the
\* floor, the result has min(top_n, k) elements, it is the prefix of that
\* length of the above-floor rows in their final order, and no above-floor
\* row left out scores higher than a returned one.
C3_TruncatesNonNegative ==
    (pc = "done" /\ arg.top_n >= 0) =>
        LET sim(i) == SimilarityOf(Preprocessed(arg.symptoms), Preprocessed(df[i].Symptoms))
            above  == {i \in 1..Len(df) : FCmp(sim(i), FLOOR) > 0}
            k      == Cardinality(above)
            all    == find_similar_diseases(arg.symptoms, df, Len(df)).order
        IN  /\ Len(ret.results) = (IF arg.top_n < k THEN arg.top_n ELSE k)
            /\ Len(all) = k
            /\ ret.order = SubSeq(all, 1, Len(ret.results))
            /\ \A i \in above \ {ret.order[j] : j \in 1..Len(ret.order)} :
                  \A j \in 1..Len(ret.results) :
                      FCmp(sim(i), ret.results[j].similarity) <= 0

\* three rows are above the floor and top_n = 1 keeps the best of them
C3_TruncatedToOne ==
    /\ pc = "done"
    /\ arg.top_n = 1
    /\ Len(ret.results) = 1
    /\ Cardinality({i \in 1..Len(df) :
          FCmp(SimilarityOf(Preprocessed(arg.symptoms), Preprocessed(df[i].Symptoms)),
               FLOOR) > 0}) = 3

\* C3 as stated, for every integer top_n: the result has min(top_n, k)
\* elements.
C3_TruncatesAnyInteger ==
    pc = "done" =>
        LET k == Cardinality({i \in 1..Len(df) :
                    FCmp(SimilarityOf(Preprocessed(arg.symptoms),
                                      Preprocessed(df[i].Symptoms)), FLOOR) > 0})
        IN  Len(ret.results) = (IF arg.top_n < k THEN arg.top_n ELSE k)

\* C4: a query that normalizes to the empty string (null, empty, blank, or
\* only stop-words, short tokens and non-letters) gets the empty list, for
\* every catalog, and no row is scored.
C4_EmptyQuery ==
    /\ \A q \in {NaN, <<>>, q_blank, q_stop} : preprocess_text(q) = <<>>
    /\ (pc = "done" /\ preprocess_text(arg.symptoms) = <<>>) =>
          (ret.results = <<>> /\ ret.scored = 0)

\* a query of stop-words, short tokens and non-letters against a catalog with rows
C4_StopWordQuery ==
    /\ pc = "done"
    /\ arg.symptoms = q_stop
    /\ Len(df) >= 1
    /\ ret.results = <<>>
    /\ ret.scored = 0

(***************************************************************************)
(* Properties of preprocess_text (SpecNorm).                               *)
(***************************************************************************)
\* C5: preprocess_text applied to its own output returns it unchanged; the
\* output is its tokens joined by single spaces, each token of lowercase
\* letters, longer than 2 characters and not a stop-word.
C5_Idempotent ==
    (pc # "idle" =>
        LET words == str_split(ret.once)
        IN  /\ ret.once = str_join(words)
            /\ \A i \in 1..Len(words) :
                  /\ Len(words[i]) > 2
                  /\ words[i] \notin stop_words
                  /\ \A j \in 1..Len(words[i]) : words[i][j] \in Range(LowerAscii))
    /\ (pc = "twice" => ret.twice = ret.once)

\* an input with an upper-case stop-word and punctuation, cut down to one token
C5_MixedCase ==
    /\ pc = "twice"
    /\ arg.text = <<"d","a","d","-","a","n","D">>
    /\ ret.once = <<"d","a","d">>
    /\ ret.twice = ret.once

(***************************************************************************)
(* Properties of categorize_disease (SpecCat).                             *)
(***************************************************************************)
\* C6: categorize_disease returns the first category, in the declared order
\* Cancer, Infection, ..., Pain Condition, with a keyword that is a substring
\* of the lowercased name, and "Other" exactly when no keyword occurs.
C6_FirstDeclared ==
    /\ [i \in 1..Len(categories) |-> categories[i].category] =
          <<"Cancer", "Infection", "Syndrome", "Deficiency", "Poisoning", "Injury",
            "Eye Condition", "Cardiovascular", "Endocrine", "Neurological",
            "Respiratory", "Gastrointestinal", "Pain Condition">>
    /\ pc = "done" =>
          LET lowered == str_lower(arg.disease_name)
              hits == {i \in 1..Len(categories) :
                          \E k \in 1..Len(categories[i].keywords) :
                              Contains(lowered, categories[i].keywords[k])}
          IN  /\ hits # {} =>
                    \E i \in hits : /\ \A j \in hits : i <= j
                                    /\ ret.category = categories[i].category
              /\ hits = {} <=> ret.category = "Other"

\* "Lung cancer clinic" holds a Respiratory keyword and is a Cancer
C6_LungCancerClinic ==
    /\ pc = "done"
    /\ arg.disease_name = <<"L","u","n","g"," ","c","a","n","c","e","r"," ","c","l","i","n","i","c">>
    /\ Contains(str_lower(arg.disease_name), <<"l","u","n","g">>)
    /\ ret.category = "Cancer"

(***************************************************************************)
(* Properties of calculate_similarity (SpecSim).                           *)
(***************************************************************************)
\* C7 as stated: the score of two normalized texts is in [0.0, 1.0], and it
\* is exactly 0.0 when either text has no tokens.
C7_UnitInterval ==
    pc = "done" =>
        /\ FCmp(ret.score, FZero) >= 0
        /\ FCmp(ret.score, FOne) <= 0
        /\ (arg.text1 = <<>> \/ arg.text2 = <<>>) => ret.score = FZero

\* C8: calculate_similarity(a, b) = calculate_similarity(b, a), empty texts
\* included.
C8_Symmetric ==
    pc = "done" => ret.score = ret.swapped

\* two texts of different magnitudes with a score strictly between 0 and 1
C8_UnequalTexts ==
    /\ pc = "done"
    /\ arg.text1 = w_ache
    /\ arg.text2 = str_join(<<w_ache, w_rash>>)
    /\ FCmp(ret.score, FZero) > 0
    /\ FCmp(ret.score, FOne) < 0
    /\ ret.swapped = ret.score

\* C9 (amended): a score of 1.0 or more is reached only by texts whose
\* term-frequency vectors are proportional: the same tokens, with counts in
\* one ratio. Texts whose vectors are not proportional score below 1.0.
C9_OnlyProportional ==
    (pc = "done" /\ FCmp(ret.score, FOne) >= 0) =>
        LET count1 == Counter(str_split(arg.text1))
            count2 == Counter(str_split(arg.text2))
        IN  /\ DOMAIN count1 = DOMAIN count2
            /\ \A v, w \in DOMAIN count1 : count1[v] * count2[w] = count1[w] * count2[v]

\* "ache" against "ache ache": different multisets, score exactly 1.0
C9_RepeatedToken ==
    /\ pc = "done"
    /\ arg.text1 = w_ache
    /\ arg.text2 = str_join(<<w_ache, w_ache>>)
    /\ ret.score = FOne

\* C9 as stated: texts with different token multisets score strictly below
\* 1.0.
C9_OnlyIdentical ==
    (pc = "done" /\ Counter(str_split(arg.text1)) # Counter(str_split(arg.text2))) =>
        FCmp(ret.score, FOne) < 0

(***************************************************************************)
(* Properties of a session (SpecSession).                                  *)
(***************************************************************************)
\* C10: after any sequence of calls the catalog is the one every call was
\* given, and each call's result is a function of its (query, catalog,
\* top_n): a query repeated later returns what it returned before.
C10_Stateless ==
    /\ \A h \in history : h.catalog = df
    /\ \A g, h \in history :
          (g.symptoms = h.symptoms /\ g.top_n = h.top_n) => g.results = h.results
    /\ pc = "done" =>
          \E h \in history :
              /\ h.symptoms = arg.symptoms /\ h.top_n = arg.top_n
              /\ h.results = ret.results

\* every call of the pool has been made, with different results
C10_AllCallsMade ==
    /\ pc = "done"
    /\ Len(df) >= 2
    /\ {[symptoms |-> h.symptoms, top_n |-> h.top_n] : h \in history} =
          {[symptoms |-> c[1], top_n |-> c[2]] : c \in CallPool}
    /\ \E g, h \in history : g.results # h.results /\ g.results # <<>>

====
